---- MODULE Spec2Model ----
(***************************************************************************)
(* A model of the audio/video editing components of AI-Video-Automation:   *)
(*   VideoAudioMerger.merge   (src/src/videomerger.py)                     *)
(*   VideoMerger.merge        (src/src/conectintro.py)                     *)
(*   get_valid_path           (src/src/__init__.py)                        *)
(*   AudioEnhancer            (src/src/audiosetting.py)                    *)
(*                                                                         *)
(* The program is single-threaded and every component call runs to         *)
(* completion, so a call is one action.  Durations are counted in ticks    *)
(* (a fixed fraction of a second), so that floor division of durations is  *)
(* integer division.                                                       *)
(***************************************************************************)
EXTENDS Integers, Sequences, FiniteSets, TLC

VARIABLES av, vm, gp, heap, files, ae, app, handles

vars == <<av, vm, gp, heap, files, ae, app, handles>>

\* Longest clip duration the model draws, in ticks.
MaxDur == 4
\* Longest crossfade the model draws, in ticks.
MaxFade == 2
\* How many times get_valid_path's loop is followed.
MaxPrompts == 3

Min(a, b) == IF a < b THEN a ELSE b
Max(a, b) == IF a < b THEN b ELSE a

\* Python's None as a returned value.
None == [kind |-> "None"]

(***************************************************************************)
(* moviepy audio clips, as VideoAudioMerger.merge uses them.  A clip has   *)
(* its nominal duration and its content: the spans <<from, to>> of the     *)
(* source audio that it plays, in order.                                   *)
(***************************************************************************)
AudioClip(d) ==
  [duration |-> d, parts |-> IF d > 0 THEN << <<0, d>> >> ELSE << >>]

RECURSIVE SumDuration(_)
SumDuration(clips) ==
  IF clips = << >> THEN 0
  ELSE Head(clips).duration + SumDuration(Tail(clips))

RECURSIVE JoinParts(_)
JoinParts(clips) ==
  IF clips = << >> THEN << >>
  ELSE Head(clips).parts \o JoinParts(Tail(clips))

\* concatenate_audioclips: the clips one after the other; the duration is the
\* sum of the durations.
concatenate_audioclips(clips) ==
  [duration |-> SumDuration(clips), parts |-> JoinParts(clips)]

\* The content of parts (laid one after the other from time `at`) that falls
\* in the window [t_start, t_end).
RECURSIVE Window(_, _, _, _)
Window(parts, at, t_start, t_end) ==
  IF parts = << >> THEN << >>
  ELSE LET p    == Head(parts)
           len  == p[2] - p[1]
           lo   == Max(at, t_start)
           hi   == Min(at + len, t_end)
           rest == Window(Tail(parts), at + len, t_start, t_end)
       IN  IF lo < hi
           THEN << <<p[1] + (lo - at), p[1] + (hi - at)>> >> \o rest
           ELSE rest

\* clip.subclip(t_start, t_end): the duration is set to t_end - t_start
\* whatever content the clip has there.
subclip(clip, t_start, t_end) ==
  [duration |-> t_end - t_start,
   parts    |-> Window(clip.parts, 0, t_start, t_end)]

\* [audio] * loop_count
Repeat(x, n) == [i \in 1..n |-> x]

(***************************************************************************)
(* VideoAudioMerger.merge                                                  *)
(***************************************************************************)

\* What a call is given, and what its environment does: whether a path
\* exists, whether the file loads, whether the encoder succeeds.
VAM_VideoInputs ==
       [kind : {"clip"}, loads : {TRUE}, duration : 0..MaxDur]
  \cup [kind : {"path"}, loads : {TRUE}, duration : 0..MaxDur]
  \cup [kind : {"path"}, loads : {FALSE}, duration : {0}]

VAM_AudioInputs ==
       [kind : {"tuple", "clip"}, exists : {TRUE}, loads : {TRUE},
        duration : 0..MaxDur]
  \cup [kind : {"path"}, exists : {TRUE}, loads : {TRUE}, duration : 0..MaxDur]
  \cup [kind : {"path"}, exists : {TRUE}, loads : {FALSE}, duration : {0}]
  \cup [kind : {"path"}, exists : {FALSE}, loads : {FALSE}, duration : {0}]

VAM_Inputs ==
  [video_input : VAM_VideoInputs, audio_input : VAM_AudioInputs,
   output_name : {"merged_video.mp4"}, save : BOOLEAN, fps : {"None", "24"},
   encode_ok : BOOLEAN, audio_close_ok : BOOLEAN]

\* The state of a call that has not returned.
VAM_Start ==
  [exc |-> "", raised |-> "", ret |-> None, v_dur |-> 0, a_dur |-> 0,
   loop_count |-> 0, audio |-> AudioClip(0), written |-> << >>,
   closed |-> {}]

VAM_Raise(r, e) == [r EXCEPT !.exc = e]

\* loop_count = int(v_dur // a_dur) + 1
loop_count_no_extra(v_dur, a_dur) == v_dur \div a_dur
loop_count(v_dur, a_dur) == (v_dur \div a_dur) + 1

\* The "Sync Durations" branches: loop then trim, trim, or leave alone.
SyncDurations_no_trim(audio, v_dur, a_dur) ==
  IF a_dur < v_dur
  THEN concatenate_audioclips(Repeat(audio, loop_count(v_dur, a_dur)))
  ELSE IF a_dur > v_dur THEN subclip(audio, 0, v_dur)
  ELSE audio
SyncDurations(audio, v_dur, a_dur) ==
  IF a_dur < v_dur
  THEN subclip(concatenate_audioclips(Repeat(audio, loop_count(v_dur, a_dur))),
               0, v_dur)
  ELSE IF a_dur > v_dur THEN subclip(audio, 0, v_dur)
  ELSE audio

\* The body of the try block: the record of the call, with exc naming the
\* exception that left the block, if one did.
VAM_try(in) ==
  LET vi == in.video_input
      ai == in.audio_input
      r0 == VAM_Start
  IN
  IF vi.kind = "path" /\ ~vi.loads THEN VAM_Raise(r0, "OSError")
  ELSE IF ai.kind = "path" /\ ~ai.exists
       THEN VAM_Raise(r0, "FileNotFoundError")
  ELSE IF ai.kind = "path" /\ ~ai.loads THEN VAM_Raise(r0, "OSError")
  ELSE
    LET v_dur == vi.duration
        a_dur == ai.duration
        r1    == [r0 EXCEPT !.v_dur = v_dur, !.a_dur = a_dur]
    IN
    \* v_dur // a_dur with a_dur = 0
    IF a_dur < v_dur /\ a_dur = 0 THEN VAM_Raise(r1, "ZeroDivisionError")
    ELSE
      LET audio == SyncDurations(AudioClip(a_dur), v_dur, a_dur)
          final_video == [kind |-> "clip", duration |-> v_dur, audio |-> audio]
          output_path == [kind |-> "path", dir |-> "output_videos",
                          name |-> in.output_name]
          r2 == [r1 EXCEPT !.audio = audio,
                           !.loop_count = IF a_dur < v_dur
                                          THEN loop_count(v_dur, a_dur) ELSE 0]
      IN
      IF in.save
      THEN IF ~in.encode_ok THEN VAM_Raise(r2, "EncodeError")
           ELSE [r2 EXCEPT
                   !.written = << [path |-> output_path, duration |-> v_dur,
                                   audio |-> audio,
                                   fps |-> IF in.fps = "None" THEN "native"
                                           ELSE in.fps] >>,
                   !.closed = {"video", "final_video"}
                              \cup (IF in.audio_close_ok THEN {"audio"} ELSE {}),
                   !.ret = output_path]
      ELSE [r2 EXCEPT !.ret = final_video]

\* except Exception as e: log, return None
VAM_except_only_missing(r) ==
  IF r.exc = "FileNotFoundError" THEN [r EXCEPT !.ret = None]
  ELSE [r EXCEPT !.raised = r.exc]
VAM_except(r) == [r EXCEPT !.ret = None]

VideoAudioMerger_merge(in) ==
  LET r == VAM_try(in) IN IF r.exc # "" THEN VAM_except(r) ELSE r

AVInit == av \in [pc : {"call"}, in : VAM_Inputs, out : {VAM_Start}]
AVIdle == [pc |-> "idle"]

AVMerge ==
  /\ av.pc = "call"
  /\ av' = [av EXCEPT !.pc = "done", !.out = VideoAudioMerger_merge(av.in)]
  /\ UNCHANGED <<vm, gp, heap, files, ae, app, handles>>

(***************************************************************************)
(* VideoMerger.merge                                                       *)
(***************************************************************************)

\* _normalize: target_resolution = (1280, 720), set_fps(30)
TargetWidth == 1280
TargetHeight == 720
TargetFps == 30

VM_ClipInputs ==
       [kind : {"clip"}, exists : {TRUE}, loads : {TRUE},
        duration : 1..MaxDur, size : {<<320, 240>>}, fps : {24}]
  \cup [kind : {"path"}, exists : {TRUE}, loads : {TRUE},
        duration : 1..MaxDur, size : {<<1920, 1080>>}, fps : {60}]
  \cup [kind : {"path"}, exists : BOOLEAN, loads : {FALSE},
        duration : {1}, size : {<<320, 240>>}, fps : {24}]

VM_Inputs ==
  [intro_path : VM_ClipInputs, main_path : VM_ClipInputs,
   crossfade : 0..MaxFade, save : BOOLEAN, encode_ok : BOOLEAN]

VM_Start ==
  [exc |-> "", raised |-> "", ret |-> None, merged_clip |-> None,
   written |-> << >>, closed |-> {}]

VM_Raise(r, e) == [r EXCEPT !.exc = e]

\* VideoFileClip(path), or the clip handle itself
VM_Load(input) ==
  [duration |-> input.duration, size |-> input.size, fps |-> input.fps,
   fadein |-> 0, fadeout |-> 0]

\* clip.resize(newsize=target_resolution).set_fps(30)
_normalize(clip) ==
  [clip EXCEPT !.size = <<TargetWidth, TargetHeight>>, !.fps = TargetFps]

\* crossfadeout / crossfadein put a fading mask on the clip's tail / head;
\* the clip keeps its duration.
crossfadeout(clip, d) == [clip EXCEPT !.fadeout = d]
crossfadein(clip, d) == [clip EXCEPT !.fadein = d]

\* concatenate_videoclips(clips, method="compose"), called without padding:
\* clip k starts where clip k-1 ends, and the result lasts the sum of the
\* durations.
concatenate_videoclips(a, b) ==
  [kind |-> "clip", duration |-> a.duration + b.duration,
   start_times |-> <<0, a.duration>>,
   size |-> <<Max(a.size[1], b.size[1]), Max(a.size[2], b.size[2])>>,
   fps |-> Max(a.fps, b.fps), clips |-> <<a, b>>]

\* _out("final_merged")
VM_out(suffix) == [kind |-> "path", dir |-> "merged_videos", name |-> suffix]

\* The try block of merge.  returned tells a return from inside the block
\* apart from an exception leaving it.
VM_try(in) ==
  LET a  == in.intro_path
      b  == in.main_path
      r0 == VM_Start
  IN
  IF a.kind = "path" /\ ~a.exists THEN r0
  ELSE IF b.kind = "path" /\ ~b.exists THEN r0
  ELSE IF a.kind = "path" /\ ~a.loads THEN VM_Raise(r0, "OSError")
  ELSE IF b.kind = "path" /\ ~b.loads THEN VM_Raise(r0, "OSError")
  ELSE
    LET intro_clip == _normalize(VM_Load(a))
        main_clip  == _normalize(VM_Load(b))
        merged_clip ==
          IF in.crossfade > 0
          THEN concatenate_videoclips(crossfadeout(intro_clip, in.crossfade),
                                      crossfadein(main_clip, in.crossfade))
          ELSE concatenate_videoclips(intro_clip, main_clip)
        output == VM_out("final_merged")
        r1 == [r0 EXCEPT !.merged_clip = merged_clip]
    IN
    IF in.save
    THEN IF ~in.encode_ok THEN VM_Raise(r1, "EncodeError")
         ELSE [r1 EXCEPT
                 !.written = << [path |-> output, clip |-> merged_clip] >>,
                 !.closed = {"intro_clip", "main_clip", "merged_clip"},
                 !.ret = output]
    ELSE [r1 EXCEPT !.ret = merged_clip]

\* except Exception as e: log, return None
VM_except(r) == [r EXCEPT !.ret = None]

VideoMerger_merge(in) ==
  LET r == VM_try(in) IN IF r.exc # "" THEN VM_except(r) ELSE r

VMInit == vm \in [pc : {"call"}, in : VM_Inputs, out : {VM_Start}]
VMIdle == [pc |-> "idle"]

VMMerge ==
  /\ vm.pc = "call"
  /\ vm' = [vm EXCEPT !.pc = "done", !.out = VideoMerger_merge(vm.in)]
  /\ UNCHANGED <<av, gp, heap, files, ae, app, handles>>

(***************************************************************************)
(* VideoProcessingApp.get_valid_path                                       *)
(*                                                                         *)
(* A string is the sequence of its characters, so that str.strip,          *)
(* str.lower and os.path.splitext are computed as Python computes them.    *)
(***************************************************************************)
UpperCase ==
  <<"A", "B", "C", "D", "E", "F", "G", "H", "I", "J", "K", "L", "M",
    "N", "O", "P", "Q", "R", "S", "T", "U", "V", "W", "X", "Y", "Z">>
LowerCase ==
  <<"a", "b", "c", "d", "e", "f", "g", "h", "i", "j", "k", "l", "m",
    "n", "o", "p", "q", "r", "s", "t", "u", "v", "w", "x", "y", "z">>

LowerChar(c) ==
  IF \E i \in 1..Len(UpperCase) : UpperCase[i] = c
  THEN LowerCase[CHOOSE i \in 1..Len(UpperCase) : UpperCase[i] = c]
  ELSE c

\* str.lower()
lower(str) == [i \in 1..Len(str) |-> LowerChar(str[i])]

\* str.strip(chars): drop the leading and trailing characters that are in
\* chars.
RECURSIVE lstrip(_, _)
lstrip(str, chars) ==
  IF str # << >> /\ Head(str) \in chars THEN lstrip(Tail(str), chars) ELSE str

RECURSIVE rstrip(_, _)
rstrip(str, chars) ==
  IF str # << >> /\ str[Len(str)] \in chars
  THEN rstrip(SubSeq(str, 1, Len(str) - 1), chars)
  ELSE str

strip(str, chars) == rstrip(lstrip(str, chars), chars)

Whitespace == {" "}

\* The last index of character c in str, 0 when there is none.
LastIndex(str, c) ==
  IF \E i \in 1..Len(str) : str[i] = c
  THEN CHOOSE i \in 1..Len(str) :
         str[i] = c /\ \A j \in (i + 1)..Len(str) : str[j] # c
  ELSE 0

\* os.path.splitext(path)[1]: from the last dot of the last path component
\* on, unless that component has only dots before it.
splitext_ext(path) ==
  LET sepIndex == LastIndex(path, "/")
      dotIndex == LastIndex(path, ".")
  IN  IF dotIndex > sepIndex
         /\ \E k \in (sepIndex + 1)..(dotIndex - 1) : path[k] # "."
      THEN SubSeq(path, dotIndex, Len(path))
      ELSE << >>

\* The extension allow-lists of get_valid_path.
AudioExtensions ==
  { <<".", "m", "p", "3">>, <<".", "w", "a", "v">>,
    <<".", "m", "4", "a">>, <<".", "f", "l", "a", "c">> }
VideoExtensions ==
  { <<".", "m", "p", "4">>, <<".", "m", "o", "v">>,
    <<".", "a", "v", "i">>, <<".", "m", "k", "v">> }

\* The paths that exist while get_valid_path runs.
FileSystem ==
  { <<"a", ".", "m", "p", "3">>,
    <<"b", ".", "W", "A", "V">>,
    <<"c", ".", "m", "p", "4">>,
    <<"d", ".", "M", "k", "v">>,
    <<"e", ".", "t", "x", "t">>,
    <<".", "m", "p", "3">>,
    <<"f", ".", "m", "p", "4", "/", "g">> }

\* What the user may type at the path prompt.
TypedPaths ==
  FileSystem \cup
  { <<"\"", "a", ".", "m", "p", "3", "\"">>,
    <<"\"", " ", "c", ".", "m", "p", "4", " ", "\"">>,
    <<" ", "\"", "a", ".", "m", "p", "3", "\"", " ">>,
    <<"m", ".", "m", "p", "3">>,
    <<"a", ".", "M", "P", "3">>,
    << >> }

\* What the user may type at the confirmation prompt.
TypedAnswers ==
  { <<"y">>, <<"Y">>, <<" ", "y", " ">>, <<"n">>, <<"y", "e", "s">>, << >> }

\* os.path.exists(path)
exists(path) == path \in FileSystem

\* The type validation of get_valid_path: TRUE when the path is refused.
WrongType_case_sensitive(path, expected_type) ==
  LET ext == splitext_ext(path)
  IN  \/ expected_type = "audio" /\ ext \notin AudioExtensions
      \/ expected_type = "video" /\ ext \notin VideoExtensions
WrongType(path, expected_type) ==
  LET ext == lower(splitext_ext(path))
  IN  \/ expected_type = "audio" /\ ext \notin AudioExtensions
      \/ expected_type = "video" /\ ext \notin VideoExtensions

\* if confirm == "y"
Confirmed_unless_n(confirm) == confirm # <<"n">>
Confirmed(confirm) == confirm = <<"y">>

GPIdle == [pc |-> "idle"]

\* get_valid_path(prompt, expected_type) is entered.  typed and answer keep
\* what the user typed in the current pass of the loop, passes counts the
\* passes.
GPInit ==
  gp \in [pc : {"prompt"}, expected_type : {"audio", "video"},
          path : {<< >>}, typed : {<< >>}, answer : {<< >>},
          asked : {FALSE}, passes : {0}, ret : {None}]

\* path = input(...).strip('"').strip(), then the checks, up to the next
\* input().
GP_ReadPath ==
  /\ gp.pc = "prompt"
  /\ gp.passes < MaxPrompts
  /\ \E typed \in TypedPaths :
       LET path == strip(strip(typed, {"\""}), Whitespace)
           next == [gp EXCEPT !.typed = typed, !.path = path,
                              !.answer = << >>, !.asked = FALSE,
                              !.passes = gp.passes + 1]
       IN  gp' = IF ~exists(path) THEN next
                 ELSE IF WrongType(path, gp.expected_type) THEN next
                 ELSE [next EXCEPT !.pc = "confirm"]
  /\ UNCHANGED <<av, vm, heap, files, ae, app, handles>>

\* confirm = input(...).strip().lower(); return path when it is "y", else
\* the loop starts over.
GP_ReadConfirm ==
  /\ gp.pc = "confirm"
  /\ \E answer \in TypedAnswers :
       LET confirm == lower(strip(answer, Whitespace))
           next    == [gp EXCEPT !.answer = answer, !.asked = TRUE]
       IN  gp' = IF Confirmed(confirm)
                 THEN [next EXCEPT !.pc = "returned",
                                   !.ret = [kind |-> "path", path |-> gp.path]]
                 ELSE [next EXCEPT !.pc = "prompt"]
  /\ UNCHANGED <<av, vm, heap, files, ae, app, handles>>

(***************************************************************************)
(* AudioEnhancer                                                           *)
(*                                                                         *)
(* Samples are fixed-point numbers: the integer s stands for the amplitude *)
(* s / Unit, and a product or quotient is rounded to the nearest integer,  *)
(* as a floating-point operation rounds to the nearest float.  A numpy     *)
(* array is a handle [base, idx] on a storage of the heap: idx lists the   *)
(* storage cells the array shows, so that a slice or a reversal is a view  *)
(* of the storage it was taken from, and a write through a view changes    *)
(* that storage.                                                           *)
(***************************************************************************)

\* The amplitude 1.0.
Unit == 32
\* Root mean squares are computed to 1 / (Unit * Fine).
Fine == 16

\* a / b rounded to the nearest integer (b > 0).
RoundDiv(a, b) ==
  IF a >= 0 THEN (2 * a + b) \div (2 * b) ELSE 0 - ((2 * (0 - a) + b) \div (2 * b))

\* The integer square root.
ISqrt(n) == CHOOSE r \in 0..n : r * r <= n /\ n < (r + 1) * (r + 1)

RECURSIVE Pow2(_)
Pow2(k) == IF k = 0 THEN 1 ELSE 2 * Pow2(k - 1)

\* 10 ** (db / 20) as a fraction <<numerator, denominator>>.  Decibel values
\* are counted in steps of 20 * log10(2) (6.02 dB), where it is a power of 2.
Pow10Db(db) == IF db >= 0 THEN <<Pow2(db), 1>> ELSE <<1, Pow2(0 - db)>>

\* y * factor (a new array)
Scale(samples, factor) ==
  [k \in 1..Len(samples) |-> RoundDiv(samples[k] * factor[1], factor[2])]

\* np.clip(y, -1.0, 1.0)
clip_none(samples) == samples
clip(samples) ==
  [k \in 1..Len(samples) |-> Max(0 - Unit, Min(Unit, samples[k]))]

RECURSIVE SumSquares(_)
SumSquares(samples) ==
  IF samples = << >> THEN 0
  ELSE Head(samples) * Head(samples) + SumSquares(Tail(samples))

\* np.sqrt(np.mean(y ** 2)), in units of 1 / (Unit * Fine)
Rms(samples) ==
  ISqrt((SumSquares(samples) * Fine * Fine) \div Len(samples))

\* The samples an array shows.
View(mem, y) == [k \in 1..Len(y.idx) |-> mem[y.base][y.idx[k]]]

\* A new array holding samples.
Alloc(mem, samples) ==
  [heap |-> Append(mem, samples),
   y    |-> [base |-> Len(mem) + 1, idx |-> [k \in 1..Len(samples) |-> k]]]

\* y[lo:hi] = values, through the view y (cells lo..hi of the view, 1-based).
WriteSlice(mem, y, lo, values) ==
  [mem EXCEPT ![y.base] =
     [j \in 1..Len(mem[y.base]) |->
        IF \E k \in 1..Len(values) : y.idx[lo + k - 1] = j
        THEN values[CHOOSE k \in 1..Len(values) : y.idx[lo + k - 1] = j]
        ELSE mem[y.base][j]]]

Tuple(y, sr) == [kind |-> "tuple", y |-> y, sr |-> sr]
AudioPath(dir, name) == [kind |-> "path", dir |-> dir, name |-> name]
NamePart(op, args) == [op |-> op, args |-> args]

\* self.output_dir
AE_output_dir == "enhanced_audio"

\* An operation returns ret, or ends with the exception exc.
AE_Result(st, ret) ==
  [heap |-> st.heap, files |-> st.files, ret |-> ret, exc |-> ""]
AE_Raise(st, e) ==
  [heap |-> st.heap, files |-> st.files, ret |-> None, exc |-> e]

\* _out(input_path, suffix): <output_dir>/<base>_<suffix>.wav
_out(input_path, suffix) ==
  AudioPath(AE_output_dir, Append(input_path.name, suffix))

\* input_path if isinstance(input_path, str) else "audio"
OutBase(input_path) ==
  IF input_path.kind = "path" THEN input_path
  ELSE AudioPath("", << NamePart("audio", << >>) >>)

\* _load: librosa.load(path) into a new array
_load(st, path) ==
  IF path \notin DOMAIN st.files
  THEN [st |-> st, exc |-> "FileNotFoundError",
        y |-> [base |-> 0, idx |-> << >>], sr |-> 0]
  ELSE LET a == Alloc(st.heap, st.files[path].samples)
       IN  [st |-> [st EXCEPT !.heap = a.heap], exc |-> "",
            y |-> a.y, sr |-> st.files[path].sr]

\* _save: sf.write(path, y, sr)
_save(st, samples, sr, path) ==
  [st EXCEPT !.files = (path :> [samples |-> samples, sr |-> sr]) @@ st.files]

\* _ensure_array: a (y, sr) tuple as it is, a path loaded
_ensure_array(st, inp) ==
  IF inp.kind = "tuple"
  THEN [st |-> st, exc |-> "", y |-> inp.y, sr |-> inp.sr]
  ELSE _load(st, inp)

\* The end of every operation: write and return the path, or return the pair.
AE_Return(st, input_path, y, sr, suffix, save) ==
  IF save
  THEN LET out == _out(OutBase(input_path), suffix)
       IN  AE_Result(_save(st, View(st.heap, y), sr, out), out)
  ELSE AE_Result(st, Tuple(y, sr))

\* The end of an operation that made the new array samples.
AE_ReturnNew(st, input_path, samples, sr, suffix, save) ==
  LET a == Alloc(st.heap, samples)
  IN  AE_Return([st EXCEPT !.heap = a.heap], input_path, a.y, sr, suffix, save)

Abs(x) == IF x < 0 THEN 0 - x ELSE x

increase_volume(st, input_path, db_gain, save) ==
  LET e == _ensure_array(st, input_path)
  IN  IF e.exc # "" THEN AE_Raise(e.st, e.exc)
      ELSE LET factor == Pow10Db(db_gain)
               y_out  == clip(Scale(View(e.st.heap, e.y), factor))
           IN  AE_ReturnNew(e.st, input_path, y_out, e.sr,
                            NamePart("volup", <<db_gain>>), save)

decrease_volume(st, input_path, db_reduce, save) ==
  LET e == _ensure_array(st, input_path)
  IN  IF e.exc # "" THEN AE_Raise(e.st, e.exc)
      ELSE LET factor == Pow10Db(db_reduce)
               y_out  == clip(Scale(View(e.st.heap, e.y), factor))
           IN  AE_ReturnNew(e.st, input_path, y_out, e.sr,
                            NamePart("voldown", <<Abs(db_reduce)>>), save)

\* np.linspace(0.0, 1.0, n)[k - 1] as a fraction
RampUp(k, n) == IF n = 1 THEN <<0, 1>> ELSE <<k - 1, n - 1>>
\* np.linspace(1.0, 0.0, n)[k - 1] as a fraction
RampDown(k, n) == IF n = 1 THEN <<1, 1>> ELSE <<n - k, n - 1>>

\* y[:n] = y[:n] * fade_curve, in place
fade_in_clamped(st, input_path, duration, save) ==
  LET e == _ensure_array(st, input_path)
  IN  IF e.exc # "" THEN AE_Raise(e.st, e.exc)
      ELSE LET n == Min(e.sr * duration, Len(e.y.idx))
               y == View(e.st.heap, e.y)
               faded == [k \in 1..n |->
                           RoundDiv(y[k] * RampUp(k, n)[1], RampUp(k, n)[2])]
           IN  AE_Return([e.st EXCEPT !.heap = WriteSlice(@, e.y, 1, faded)],
                         input_path, e.y, e.sr,
                         NamePart("fadein", <<duration>>), save)
fade_in(st, input_path, duration, save) ==
  LET e == _ensure_array(st, input_path)
  IN  IF e.exc # "" THEN AE_Raise(e.st, e.exc)
      ELSE LET n   == e.sr * duration
               len == Len(e.y.idx)
               y   == View(e.st.heap, e.y)
           IN  IF n > len /\ ~(len = 0 /\ n = 1)
               THEN AE_Raise(e.st, "ValueError")
               ELSE LET m == Min(n, len)
                        faded == [k \in 1..m |->
                                    RoundDiv(y[k] * RampUp(k, n)[1],
                                             RampUp(k, n)[2])]
                        heap1 == WriteSlice(e.st.heap, e.y, 1, faded)
                    IN  AE_Return([e.st EXCEPT !.heap = heap1], input_path,
                                  e.y, e.sr, NamePart("fadein", <<duration>>),
                                  save)

\* y[-n:] = y[-n:] * fade_curve, in place; y[-0:] is all of y
fade_out(st, input_path, duration, save) ==
  LET e == _ensure_array(st, input_path)
  IN  IF e.exc # "" THEN AE_Raise(e.st, e.exc)
      ELSE LET n     == e.sr * duration
               len   == Len(e.y.idx)
               y     == View(e.st.heap, e.y)
               slice == IF n = 0 THEN len ELSE Min(n, len)
           IN  IF slice # n /\ ~(slice = 0 /\ n = 1)
               THEN AE_Raise(e.st, "ValueError")
               ELSE LET lo == len - slice + 1
                        faded == [k \in 1..slice |->
                                    RoundDiv(y[lo + k - 1] * RampDown(k, n)[1],
                                             RampDown(k, n)[2])]
                        heap1 == WriteSlice(e.st.heap, e.y, lo, faded)
                    IN  AE_Return([e.st EXCEPT !.heap = heap1], input_path,
                                  e.y, e.sr, NamePart("fadeout", <<duration>>),
                                  save)

\* librosa.effects.time_stretch(y, rate=factor): a new array of
\* round(len / rate) samples.  Which values the phase vocoder gives is the
\* library's business; the model takes the input sample at the same time.
time_stretch(samples, rate) ==
  [k \in 1..RoundDiv(Len(samples) * rate[2], rate[1]) |->
     samples[Min(Len(samples), ((k - 1) * rate[1]) \div rate[2] + 1)]]

\* factor is counted in halves: 1 is half speed, 4 is double speed.
speed_change(st, input_path, factor, save) ==
  LET e == _ensure_array(st, input_path)
  IN  IF e.exc # "" THEN AE_Raise(e.st, e.exc)
      ELSE AE_ReturnNew(e.st, input_path,
                        time_stretch(View(e.st.heap, e.y), <<factor, 2>>),
                        e.sr, NamePart("speed", <<factor>>), save)

\* y[::-1]: a view of y
reverse(st, input_path, save) ==
  LET e == _ensure_array(st, input_path)
  IN  IF e.exc # "" THEN AE_Raise(e.st, e.exc)
      ELSE LET len   == Len(e.y.idx)
               y_rev == [e.y EXCEPT !.idx = [k \in 1..len |-> e.y.idx[len + 1 - k]]]
           IN  AE_Return(e.st, input_path, y_rev, e.sr,
                         NamePart("reversed", << >>), save)

\* y[start_idx:end_idx]: a view of y.  end is << >> for None, <<t>> for t;
\* "if end" is false for None and for 0.
cut(st, input_path, start, end, save) ==
  LET e == _ensure_array(st, input_path)
  IN  IF e.exc # "" THEN AE_Raise(e.st, e.exc)
      ELSE LET len       == Len(e.y.idx)
               start_idx == start * e.sr
               end_idx   == IF end # << >> /\ end[1] # 0 THEN end[1] * e.sr
                            ELSE len
               lo        == Min(start_idx, len)
               hi        == Min(end_idx, len)
               y_cut     == [e.y EXCEPT !.idx = SubSeq(e.y.idx, lo + 1, hi)]
           IN  AE_Return(e.st, input_path, y_cut, e.sr,
                         NamePart("cut", <<start>> \o
                                   (IF end # << >> /\ end[1] # 0 THEN end
                                    ELSE << >>)),
                         save)

\* y * 10 ** ((target_db - 20 * log10(rms + 1e-6)) / 20), clipped: the factor
\* is 10 ** (target_db / 20) / (rms + 1e-6).  The 1e-6 is below the model's
\* resolution; what it does is keep a silent buffer silent.
normalize_samples(samples, target_db) ==
  IF samples = << >> \/ Rms(samples) = 0 THEN samples
  ELSE LET t == Pow10Db(target_db)
       IN  clip([k \in 1..Len(samples) |->
                   RoundDiv(samples[k] * t[1] * Unit * Fine,
                            t[2] * Rms(samples))])

normalize(st, input_path, target_db, save) ==
  LET e == _ensure_array(st, input_path)
  IN  IF e.exc # "" THEN AE_Raise(e.st, e.exc)
      ELSE AE_ReturnNew(e.st, input_path,
                        normalize_samples(View(e.st.heap, e.y), target_db),
                        e.sr, NamePart("norm", <<target_db>>), save)

\* The operations of AudioEnhancer that transform audio.
AudioOperations ==
  {"increase_volume", "decrease_volume", "fade_in", "fade_out",
   "speed_change", "reverse", "cut", "normalize"}

\* Its other methods.
OtherMethods == {"_out", "_load", "_save", "_ensure_array", "__init__"}

\* getattr(self, name, None)
getattr(name) ==
  IF name \in AudioOperations THEN "operation"
  ELSE IF name \in OtherMethods THEN "method"
  ELSE IF name = "output_dir" THEN "str"
  ELSE "None"

\* The default of an operation's parameter, for the operations whose default
\* is a value of the model (db_reduce=-6.0, duration=2.0, start=0.0).
DefaultArg(name) ==
  CASE name = "decrease_volume" -> 0 - 1
    [] name \in {"fade_in", "fade_out"} -> 2
    [] name = "cut" -> 0

\* fn(temp, save=False) when val is None (<< >>), fn(temp, val, save=False)
\* otherwise.  A method that takes no save parameter, a str, and reverse
\* given a second positional argument end with TypeError.
AM_Call(st, name, temp, val) ==
  LET arg == IF val = << >> THEN DefaultArg(name) ELSE val[1]
  IN  CASE getattr(name) # "operation" -> AE_Raise(st, "TypeError")
        [] name = "increase_volume" -> increase_volume(st, temp, arg, FALSE)
        [] name = "decrease_volume" -> decrease_volume(st, temp, arg, FALSE)
        [] name = "fade_in" -> fade_in(st, temp, arg, FALSE)
        [] name = "fade_out" -> fade_out(st, temp, arg, FALSE)
        [] name = "speed_change" -> speed_change(st, temp, arg, FALSE)
        [] name = "reverse" -> IF val = << >> THEN reverse(st, temp, FALSE)
                               ELSE AE_Raise(st, "TypeError")
        [] name = "cut" -> cut(st, temp, arg, << >>, FALSE)
        [] name = "normalize" -> normalize(st, temp, arg, FALSE)

\* What the loop of apply_multiple hands to fn: temp.
AM_FnInput_original(input_path, temp) == input_path
AM_FnInput(input_path, temp) == temp

\* The one element of a singleton set: the value an expression has, bound to
\* a name.
The(S) == CHOOSE x \in S : TRUE

\* The for loop of apply_multiple over the actions still to run.  applied
\* lists the names whose operation has run.
RECURSIVE AM_loop(_, _, _, _, _)
AM_loop(st, input_path, temp, actions, applied) ==
  IF actions = << >>
  THEN [st |-> st, temp |-> temp, exc |-> "", failed |-> FALSE,
        applied |-> applied]
  ELSE LET name == Head(actions).name
           val  == Head(actions).val
       IN  IF getattr(name) = "None"
           THEN [st |-> st, temp |-> temp, exc |-> "", failed |-> TRUE,
                 applied |-> applied]
           ELSE The({
             IF res.exc # ""
             THEN [st |-> [heap |-> res.heap, files |-> res.files],
                   temp |-> temp, exc |-> res.exc, failed |-> FALSE,
                   applied |-> applied]
             ELSE IF res.ret.kind = "None"
             THEN [st |-> [heap |-> res.heap, files |-> res.files],
                   temp |-> temp, exc |-> "", failed |-> TRUE,
                   applied |-> Append(applied, name)]
             ELSE AM_loop([heap |-> res.heap, files |-> res.files],
                          input_path, res.ret, Tail(actions),
                          Append(applied, name))
             : res \in {AM_Call(st, name, AM_FnInput(input_path, temp), val)}})

\* return temp, or the path the final result was written to
AM_finish(l, input_path, save) ==
  IF l.exc # "" THEN AE_Raise(l.st, l.exc)
  ELSE IF l.failed THEN AE_Result(l.st, None)
  ELSE IF save
  THEN LET e == _ensure_array(l.st, l.temp)
       IN  IF e.exc # "" THEN AE_Raise(e.st, e.exc)
           ELSE AE_Return(e.st, input_path, e.y, e.sr,
                          NamePart("pipeline", << >>), TRUE)
  ELSE AE_Result(l.st, l.temp)

apply_multiple(st, input_path, actions, save) ==
  The({ The({ [heap |-> r.heap, files |-> r.files, ret |-> r.ret,
               exc |-> r.exc, applied |-> l.applied]
              : r \in {AM_finish(l, input_path, save)} })
        : l \in {AM_loop(st, input_path, input_path, actions, << >>)} })

(***************************************************************************)
(* A caller of AudioEnhancer: it holds a buffer, or the path of a file,    *)
(* and calls one operation on it.                                          *)
(***************************************************************************)

\* Longest input buffer, in samples.
MaxLen == 2
\* Longest action list given to apply_multiple.
MaxActions == 2

SampleValues == {0 - 28, 0, 4, 48}
SampleRates == {1, 2}
InputBuffers == UNION {[1..n -> SampleValues] : n \in 0..MaxLen}

\* Decibel arguments (in steps of 6.02 dB), fade durations and cut times
\* (in seconds), speed factors (in halves).
Gains == {0 - 1, 1}
Targets == {0 - 1, 0}
FadeDurations == {0, 1, 2}
CutTimes == {0, 1}
CutEnds == {<< >>, <<0>>, <<1>>}
SpeedFactors == {1, 4}

SongPath == AudioPath("", << NamePart("song", << >>) >>)
MissingPath == AudioPath("", << NamePart("missing", << >>) >>)

\* The (name, val) pairs of an action list.
ActionEntries ==
       [name : {"increase_volume"}, val : {<<1>>}]
  \cup [name : {"decrease_volume"}, val : {<< >>}]
  \cup [name : {"fade_in"}, val : {<<1>>}]
  \cup [name : {"fade_out"}, val : {<< >>}]
  \cup [name : {"speed_change"}, val : {<<4>>}]
  \cup [name : {"reverse"}, val : {<< >>}]
  \cup [name : {"cut"}, val : {<<1>>}]
  \cup [name : {"normalize"}, val : {<<0>>}]
  \cup [name : {"echo", "_load", "output_dir"}, val : {<< >>}]

ActionLists == UNION {[1..n -> ActionEntries] : n \in 0..MaxActions}

AEIdle == [pc |-> "idle"]

AEInit ==
  \E samples \in InputBuffers, sr \in SampleRates :
    /\ heap = << samples >>
    /\ files = (SongPath :> [samples |-> samples, sr |-> sr])
    /\ \E input_path \in
            {Tuple([base |-> 1, idx |-> [k \in 1..Len(samples) |-> k]], sr),
             SongPath}
            \cup (IF samples = << >> /\ sr = 1 THEN {MissingPath} ELSE {}) :
         ae = [pc |-> "call", input_path |-> input_path, op |-> "",
               args |-> << >>, actions |-> << >>, save |-> FALSE,
               ret |-> None, exc |-> "", applied |-> << >>, wrote |-> {}]

\* The call returns (or raises): the caller sees res.
AE_Done(op, args, actions, save, res, applied) ==
  /\ heap' = res.heap
  /\ files' = res.files
  /\ ae' = [ae EXCEPT !.pc = "done", !.op = op, !.args = args,
                      !.actions = actions, !.save = save, !.ret = res.ret,
                      !.exc = res.exc, !.applied = applied,
                      !.wrote = {p \in DOMAIN res.files :
                                   \/ p \notin DOMAIN files
                                   \/ res.files[p] # files[p]}]
  /\ UNCHANGED <<av, vm, gp, app, handles>>

AE_St == [heap |-> heap, files |-> files]

IncreaseVolume ==
  /\ ae.pc = "call"
  /\ \E db_gain \in Gains, save \in BOOLEAN :
       AE_Done("increase_volume", <<db_gain>>, << >>, save,
               increase_volume(AE_St, ae.input_path, db_gain, save), << >>)

DecreaseVolume ==
  /\ ae.pc = "call"
  /\ \E db_reduce \in Gains, save \in BOOLEAN :
       AE_Done("decrease_volume", <<db_reduce>>, << >>, save,
               decrease_volume(AE_St, ae.input_path, db_reduce, save), << >>)

FadeIn ==
  /\ ae.pc = "call"
  /\ \E duration \in FadeDurations, save \in BOOLEAN :
       AE_Done("fade_in", <<duration>>, << >>, save,
               fade_in(AE_St, ae.input_path, duration, save), << >>)

FadeOut ==
  /\ ae.pc = "call"
  /\ \E duration \in FadeDurations, save \in BOOLEAN :
       AE_Done("fade_out", <<duration>>, << >>, save,
               fade_out(AE_St, ae.input_path, duration, save), << >>)

SpeedChange ==
  /\ ae.pc = "call"
  /\ \E factor \in SpeedFactors, save \in BOOLEAN :
       AE_Done("speed_change", <<factor>>, << >>, save,
               speed_change(AE_St, ae.input_path, factor, save), << >>)

Reverse ==
  /\ ae.pc = "call"
  /\ \E save \in BOOLEAN :
       AE_Done("reverse", << >>, << >>, save,
               reverse(AE_St, ae.input_path, save), << >>)

Cut ==
  /\ ae.pc = "call"
  /\ \E start \in CutTimes, end \in CutEnds, save \in BOOLEAN :
       AE_Done("cut", <<start>> \o end, << >>, save,
               cut(AE_St, ae.input_path, start, end, save), << >>)

Normalize ==
  /\ ae.pc = "call"
  /\ \E target_db \in Targets, save \in BOOLEAN :
       AE_Done("normalize", <<target_db>>, << >>, save,
               normalize(AE_St, ae.input_path, target_db, save), << >>)

ApplyMultiple ==
  /\ ae.pc = "call"
  /\ \E actions \in ActionLists, save \in BOOLEAN :
       \E res \in {apply_multiple(AE_St, ae.input_path, actions, save)} :
         AE_Done("apply_multiple", << >>, actions, save, res, res.applied)

(***************************************************************************)
(* VideoProcessingApp: the menus.  A choice is read and handled to the     *)
(* next prompt of a menu in one action.  app keeps, of the choice handled  *)
(* last: the menu, the choice, how many paths get_valid_path was asked     *)
(* for, the component calls made, the messages printed, and the exception  *)
(* that left the handler, if one did.                                      *)
(***************************************************************************)

\* How many choices a session of the user is followed for.
MaxSteps == 2

\* What the user may type at "Select operation: ".
TypedChoices ==
  { <<"0">>, <<"1">>, <<"2">>, <<"3">>, <<"4">>, <<"5">>, <<"6">>, <<"x">>,
    << >>, <<" ", "4", " ">>, <<"1", "0">> }

\* What the user may type at "Enter speed factor".
TypedNumbers ==
  { <<"1", ".", "5">>, <<".", "8">>, <<"2">>, <<"-", "1">>, <<" ", "2", " ">>,
    <<"f", "a", "s", "t">>, << >>, <<"1", ".", "5", ".", "0">>, <<"1", ",", "5">> }

Digits == {"0", "1", "2", "3", "4", "5", "6", "7", "8", "9"}

\* float(text) succeeds: blanks around, an optional sign, digits with at
\* most one point among them (the decimal literals; float also reads
\* exponents, "inf" and "nan", which the model does not type).
IsFloat(text) ==
  LET t    == strip(text, Whitespace)
      body == IF t # << >> /\ Head(t) \in {"+", "-"} THEN Tail(t) ELSE t
  IN  /\ \E k \in 1..Len(body) : body[k] \in Digits
      /\ \A k \in 1..Len(body) : body[k] \in Digits \cup {"."}
      /\ Cardinality({k \in 1..Len(body) : body[k] = "."}) <= 1

\* A component call: the operation, the values it was given, how it ended
\* ("value": returned a result, "None": returned None, "raise"), and the
\* value it returned.
App_Call(op, inputs, result, out) ==
  [op |-> op, inputs |-> inputs, result |-> result, out |-> out]

\* The path get_valid_path returned for an audio or a video file.
UserPath(expected_type) == [kind |-> "path", name |-> expected_type]

\* What a handler has done so far.
App_Handler(st) ==
  [st |-> st, paths |-> 0, calls |-> << >>, printed |-> << >>, exc |-> ""]

\* audio_path = self.get_valid_path(...)
App_AskPath(h) == [h EXCEPT !.paths = @ + 1]

\* out = <operation>(path, ..., save=True), print(f"Saved: {out}"), and the
\* menu's closing message; the operation may raise.
App_SaveCall(h, op, path, outcome, done) ==
  IF outcome = "raise"
  THEN [h EXCEPT !.calls = Append(@, App_Call(op, <<path>>, "raise", None)),
                 !.exc = "Exception"]
  ELSE [h EXCEPT !.calls = Append(@, App_Call(op, <<path>>, "value",
                                              [kind |-> "path", name |-> op])),
                 !.printed = @ \o <<"Saved", done>>]

\* audio_menu, choice "4": tmp = fade_in(audio_path, duration=2.0,
\* save=False); out = fade_out(tmp, duration=2.0, save=True)
App_Fades(h, audio_path) ==
  The({
    IF r1.exc # ""
    THEN [h EXCEPT !.st = [heap |-> r1.heap, files |-> r1.files],
                   !.calls = Append(@, App_Call("fade_in", <<audio_path>>,
                                                "raise", None)),
                   !.exc = r1.exc]
    ELSE The({
      [h EXCEPT !.st = [heap |-> r2.heap, files |-> r2.files],
                !.calls = @ \o
                  << App_Call("fade_in", <<audio_path>>, "value", r1.ret),
                     App_Call("fade_out", <<r1.ret>>,
                              IF r2.exc # "" THEN "raise" ELSE "value",
                              r2.ret) >>,
                !.printed = IF r2.exc # "" THEN @
                            ELSE @ \o <<"Saved", "Audio processed successfully">>,
                !.exc = r2.exc]
      : r2 \in {fade_out([heap |-> r1.heap, files |-> r1.files], r1.ret, 2,
                         TRUE)}})
    : r1 \in {fade_in(h.st, audio_path, 2, FALSE)}})

\* audio_menu: the try block of one pass of the loop
audio_menu_try(h, choice, text, outcome) ==
  CASE choice = <<"1">> ->
         App_SaveCall(h, "increase_volume", UserPath("audio"), outcome,
                      "Audio processed successfully")
    [] choice = <<"2">> ->
         App_SaveCall(h, "decrease_volume", UserPath("audio"), outcome,
                      "Audio processed successfully")
    [] choice = <<"3">> ->
         App_SaveCall(h, "normalize", UserPath("audio"), outcome,
                      "Audio processed successfully")
    [] choice = <<"4">> -> App_Fades(h, SongPath)
    [] choice = <<"5">> ->
         IF ~IsFloat(text) THEN [h EXCEPT !.exc = "ValueError"]
         ELSE App_SaveCall(h, "speed_change", UserPath("audio"), outcome,
                           "Audio processed successfully")
    [] OTHER -> [h EXCEPT !.printed = Append(@, "Invalid choice")]

\* except Exception as e: print(f"<message>: {e}")
menu_except_none(h, message) == h
menu_except(h, message) ==
  IF h.exc # "" THEN [h EXCEPT !.printed = Append(@, message), !.exc = ""]
  ELSE h

\* video_menu: the try block of one pass of the loop
video_menu_try(h, choice, outcome) ==
  CASE choice \in {<<"1">>, <<"2">>} ->
         App_SaveCall(h, "adjust_color", UserPath("video"), outcome,
                      "Video processed successfully")
    [] OTHER -> [h EXCEPT !.printed = Append(@, "Invalid choice")]

\* How a merge ended, as the menu sees it.
MergeResult(r) ==
  IF r.raised # "" THEN "raise"
  ELSE IF r.ret.kind = "None" THEN "None" ELSE "value"

\* A merge was called: its result is printed in the handler's message of
\* success, unless it raised.
App_MergeCall(h, op, inputs, r, success) ==
  IF r.raised # ""
  THEN [h EXCEPT !.calls = Append(@, App_Call(op, inputs, "raise", None)),
                 !.exc = r.raised]
  ELSE [h EXCEPT !.calls = Append(@, App_Call(op, inputs, MergeResult(r),
                                              r.ret)),
                 !.printed = Append(@, success)]

\* The files get_valid_path can return: they exist; they may fail to load.
App_VideoFiles == {c \in VM_ClipInputs : c.kind = "path" /\ c.exists}
App_VideoInputs == {v \in VAM_VideoInputs : v.kind = "path"}
App_AudioInputs == {a \in VAM_AudioInputs : a.kind = "path" /\ a.exists}

\* merge_videos: result = self.video_merger.merge(video1, video2, save=True)
merge_videos(h, video1, video2, encode_ok) ==
  The({ menu_except(
          App_MergeCall(App_AskPath(App_AskPath(h)), "video_merger.merge",
                        <<video1, video2>>, r, "Videos merged successfully"),
          "Failed to merge")
        : r \in {VideoMerger_merge(
                   [intro_path |-> video1, main_path |-> video2,
                    crossfade |-> 0, save |-> TRUE,
                    encode_ok |-> encode_ok])} })

\* merge_audio_video: result = self.av_merger.merge(video, audio,
\* output_name="merged_output.mp4", save=True)
merge_audio_video(h, video, audio, encode_ok) ==
  The({ menu_except(
          App_MergeCall(App_AskPath(App_AskPath(h)), "av_merger.merge",
                        <<video, audio>>, r, "Merged output saved"),
          "Failed")
        : r \in {VideoAudioMerger_merge(
                   [video_input |-> video, audio_input |-> audio,
                    output_name |-> "merged_output.mp4", save |-> TRUE,
                    fps |-> "None", encode_ok |-> encode_ok,
                    audio_close_ok |-> TRUE])} })

\* A step of the pipeline ended with an exception.
FP_Raises_never(outcome) == FALSE
FP_Raises(outcome) == outcome = "raise"

\* full_pipeline: the try block.  env tells how decrease_volume and
\* adjust_color end, how long what they return lasts, and whether the
\* encoder succeeds.
full_pipeline_try(h, env) ==
  LET processed_audio == [kind |-> "tuple", exists |-> TRUE, loads |-> TRUE,
                          duration |-> env.a_dur]
      processed_video == [kind |-> "clip", loads |-> TRUE,
                          duration |-> env.v_dur]
      h1 == [h EXCEPT
               !.printed = Append(@, "Step 1"),
               !.calls = Append(@, App_Call("decrease_volume",
                            <<UserPath("audio")>>, env.audio,
                            IF env.audio = "raise" THEN None
                            ELSE processed_audio))]
      h2 == [h1 EXCEPT
               !.printed = Append(@, "Step 2"),
               !.calls = Append(@, App_Call("adjust_color",
                            <<UserPath("video")>>, env.video,
                            IF env.video = "raise" THEN None
                            ELSE processed_video))]
      h3 == [h2 EXCEPT !.printed = Append(@, "Step 3")]
  IN  IF FP_Raises(env.audio) THEN [h1 EXCEPT !.exc = "Exception"]
      ELSE IF FP_Raises(env.video) THEN [h2 EXCEPT !.exc = "Exception"]
      ELSE The({ App_MergeCall(h3, "av_merger.merge",
                               <<processed_video, processed_audio>>, r,
                               "Final video ready")
                 : r \in {VideoAudioMerger_merge(
                            [video_input |-> processed_video,
                             audio_input |-> processed_audio,
                             output_name |-> "final_output.mp4",
                             save |-> TRUE, fps |-> "24",
                             encode_ok |-> env.encode_ok,
                             audio_close_ok |-> TRUE])} })

full_pipeline(h, env) ==
  menu_except(full_pipeline_try(App_AskPath(App_AskPath(h)), env),
              "Pipeline failed")

PipelineEnvs ==
  [audio : {"value", "raise"}, a_dur : {0, 1, 2}, video : {"value", "raise"},
   v_dur : {1, 2}, encode_ok : BOOLEAN]

AppIdle == [pc |-> "idle"]

\* app.run() is entered; the audio file the user will name holds some
\* samples.
AppInit ==
  /\ app = [pc |-> "main", steps |-> 0, menu |-> "", choice |-> << >>,
            text |-> << >>, paths |-> 0, calls |-> << >>, printed |-> << >>, uncaught |-> ""]
  /\ heap = << >>
  /\ \E samples \in InputBuffers, sr \in SampleRates :
       files = (SongPath :> [samples |-> samples, sr |-> sr])

\* The choice read in menu (and the number text, if one was asked for) has
\* been handled as h tells, and the program is at the prompt of next (or
\* gone, with an exception no handler caught).
\* The arrays of the handler are its locals.
App_Handled(menu, choice, text, h, next) ==
  /\ app' = [pc |-> IF h.exc # "" THEN "crashed" ELSE next,
             steps |-> app.steps + 1, menu |-> menu, choice |-> choice,
             text |-> text, paths |-> h.paths, calls |-> h.calls, printed |-> h.printed,
             uncaught |-> h.exc]
  /\ heap' = << >>
  /\ files' = h.st.files
  /\ UNCHANGED <<av, vm, gp, ae, handles>>

\* run(): a choice that opens a menu, leaves, or is none of the menu's.
Run_Choice ==
  /\ app.pc = "main"
  /\ app.steps < MaxSteps
  /\ \E typed \in TypedChoices :
       LET choice == strip(typed, Whitespace)
           h      == App_Handler(AE_St)
       IN  /\ choice \notin {<<"3">>, <<"4">>, <<"5">>}
           /\ CASE choice = <<"1">> ->
                     App_Handled("main", choice, << >>, h, "audio_menu")
                [] choice = <<"2">> ->
                     App_Handled("main", choice, << >>, h, "video_menu")
                [] choice = <<"0">> ->
                     App_Handled("main", choice, << >>,
                                 [h EXCEPT !.printed = <<"Goodbye">>], "exit")
                [] OTHER ->
                     App_Handled("main", choice, << >>,
                                 [h EXCEPT !.printed =
                                    <<"Invalid choice. Try again.">>], "main")

\* run(), choice "3": merge_videos()
Run_MergeVideos ==
  /\ app.pc = "main"
  /\ app.steps < MaxSteps
  /\ \E typed \in TypedChoices :
       /\ strip(typed, Whitespace) = <<"3">>
       /\ \E video1 \in App_VideoFiles, video2 \in App_VideoFiles,
             encode_ok \in BOOLEAN :
            \E h \in {merge_videos(App_Handler(AE_St), video1, video2,
                                   encode_ok)} :
              App_Handled("main", <<"3">>, << >>, h, "main")

\* run(), choice "4": merge_audio_video()
Run_MergeAudioVideo ==
  /\ app.pc = "main"
  /\ app.steps < MaxSteps
  /\ \E typed \in TypedChoices :
       /\ strip(typed, Whitespace) = <<"4">>
       /\ \E video \in App_VideoInputs, audio \in App_AudioInputs,
             encode_ok \in BOOLEAN :
            \E h \in {merge_audio_video(App_Handler(AE_St), video, audio,
                                        encode_ok)} :
              App_Handled("main", <<"4">>, << >>, h, "main")

\* run(), choice "5": full_pipeline()
Run_FullPipeline ==
  /\ app.pc = "main"
  /\ app.steps < MaxSteps
  /\ \E typed \in TypedChoices :
       /\ strip(typed, Whitespace) = <<"5">>
       /\ \E env \in PipelineEnvs :
            \E h \in {full_pipeline(App_Handler(AE_St), env)} :
              App_Handled("main", <<"5">>, << >>, h, "main")

\* audio_menu(): one pass of its loop
AudioMenu ==
  /\ app.pc = "audio_menu"
  /\ app.steps < MaxSteps
  /\ \E typed \in TypedChoices, text \in TypedNumbers,
        outcome \in {"value", "raise"} :
       LET choice == strip(typed, Whitespace)
       IN  IF choice = <<"0">>
           THEN App_Handled("audio", choice, << >>, App_Handler(AE_St), "main")
           ELSE \E h \in {menu_except(
                            audio_menu_try(App_AskPath(App_Handler(AE_St)),
                                           choice, text, outcome),
                            "Error")} :
                  App_Handled("audio", choice,
                              IF choice = <<"5">> THEN text ELSE << >>,
                              h, "audio_menu")

\* video_menu(): one pass of its loop
VideoMenu ==
  /\ app.pc = "video_menu"
  /\ app.steps < MaxSteps
  /\ \E typed \in TypedChoices, outcome \in {"value", "raise"} :
       LET choice == strip(typed, Whitespace)
       IN  IF choice = <<"0">>
           THEN App_Handled("video", choice, << >>, App_Handler(AE_St), "main")
           ELSE \E h \in {menu_except(
                            video_menu_try(App_AskPath(App_Handler(AE_St)),
                                           choice, outcome),
                            "Error")} :
                  App_Handled("video", choice, << >>, h, "video_menu")

(***************************************************************************)
(* Clip handles: which operation closes which clip.  A clip object is      *)
(* [kind, readers, closed_by, origin]: kind "file" is a VideoFileClip (or  *)
(* a copy of one: fl_image, fx, resize, set_fps and set_audio return       *)
(* copies that refer to the same reader), kind "plain" a clip whose        *)
(* close() does nothing (ColorClip, a concatenation); readers are the      *)
(* readers its frames come from; closed_by names who called close() on    *)
(* the object, which sets its reader to None ("" while it is open);        *)
(* origin tells who made it.  procs[r] tells whether reader r's decoder    *)
(* process runs.  The audio input of VideoAudioMerger.merge is a path or   *)
(* a (y, sr) pair here.                                                    *)
(***************************************************************************)
MaxClips == 3
MaxCalls == 3

H_Clip(kind, readers, closed_by, origin) ==
  [kind |-> kind, readers |-> readers, closed_by |-> closed_by,
   origin |-> origin]

\* isinstance(input_path, str): the model writes 0 for a path of a video
\* file and k > 0 for the k-th clip the caller holds
H_IsPath(input) == input = 0

\* clip = input_path if isinstance(input_path, VideoClip)
\*        else VideoFileClip(input_path)
H_Input(hs, input) ==
  IF H_IsPath(input) THEN H_Clip("file", {Len(hs.procs) + 1}, "", "op")
  ELSE hs.clips[input]
H_Load(hs, input) ==
  IF H_IsPath(input) THEN [hs EXCEPT !.procs = Append(@, TRUE)] ELSE hs

\* close() of a clip object: a VideoFileClip that still has its reader
\* closes the reader's process; any other clip does nothing
H_CloseReader(hs, c) ==
  IF c.kind = "file" /\ c.closed_by = ""
  THEN [hs EXCEPT !.procs = [r \in DOMAIN @ |->
                               IF r \in c.readers THEN FALSE ELSE @[r]]]
  ELSE hs

\* close() of the clip that is the operation's input: when that is a clip
\* of the caller, the caller's object loses its reader
H_Close(hs, input, by) ==
  LET c == H_Input(hs, input)
  IN  The({ IF ~H_IsPath(input) /\ c.kind = "file" /\ c.closed_by = ""
            THEN [h1 EXCEPT !.clips[input].closed_by = by]
            ELSE h1
            : h1 \in {H_CloseReader(H_Load(hs, input), c)} })

\* A clip made from parts (concatenate_videoclips): a plain clip that reads
\* from the parts' readers and cannot be read once a part lost its reader
H_Composite(c1, c2) ==
  H_Clip("plain", c1.readers \cup c2.readers,
         IF c1.closed_by # "" THEN c1.closed_by ELSE c2.closed_by, "op")

\* write_videofile reads every frame: it fails on a clip without reader
\* and when the encoder fails
write_videofile(c, encode_ok) == c.closed_by = "" /\ encode_ok

\* return new_clip: the caller now holds the clip
H_Return(hs, c) ==
  [hs |-> [hs EXCEPT !.clips = Append(@, [c EXCEPT !.origin = "returned"])],
   result |-> "clip"]

H_Result(hs, result) == [hs |-> hs, result |-> result]

\* VideoEnhancer.adjust_color (speed_change, fade_in_out, trim, add_watermark
\* and add_subtitles open, save and close in the same way)
VE_adjust_color(hs, input_path, save, encode_ok) ==
  LET new_clip == H_Input(hs, input_path)
  IN  IF save
      THEN IF write_videofile(new_clip, encode_ok)
           THEN H_Result(H_CloseReader(H_Close(hs, input_path, "adjust_color"),
                                       new_clip), "path")
           ELSE H_Result(H_Load(hs, input_path), "raise")
      ELSE H_Return(H_Load(hs, input_path), new_clip)

\* VideoAudioMerger.merge
VAM_merge_clips(hs, video_input, save, encode_ok) ==
  LET final_video == H_Input(hs, video_input)
  IN  IF save
      THEN IF write_videofile(final_video, encode_ok)
           THEN H_Result(H_CloseReader(H_Close(hs, video_input,
                                               "av_merger.merge"),
                                       final_video), "path")
           ELSE H_Result(H_Load(hs, video_input), "None")
      ELSE H_Return(H_Load(hs, video_input), final_video)

\* VideoMerger.merge: the clips closed after the save are the normalized
\* copies, not the input objects
VM_merge_clips(hs, intro_path, main_path, save, encode_ok) ==
  The({ The({
    LET intro_clip  == H_Input(hs, intro_path)
        main_clip   == H_Input(h1, main_path)
        merged_clip == H_Composite(intro_clip, main_clip)
    IN  IF save
        THEN IF write_videofile(merged_clip, encode_ok)
             THEN H_Result(H_CloseReader(H_CloseReader(h2, intro_clip),
                                         main_clip), "path")
             ELSE H_Result(h2, "None")
        ELSE H_Return(h2, merged_clip)
    : h2 \in {H_Load(h1, main_path)} })
    : h1 \in {H_Load(hs, intro_path)} })

\* What the caller starts with: a VideoFileClip it opened, a ColorClip it
\* made, or both.
H_CallerClips ==
  { << H_Clip("file", {1}, "", "caller") >>,
    << H_Clip("plain", {}, "", "caller") >>,
    << H_Clip("file", {1}, "", "caller"), H_Clip("plain", {}, "", "caller") >> }

HandlesInit ==
  \E held \in H_CallerClips :
    handles = [clips |-> held,
               procs |-> IF held[1].kind = "file" THEN <<TRUE>> ELSE << >>,
               calls |-> 0,
               last |-> [op |-> "", inputs |-> << >>, save |-> FALSE,
                         result |-> ""]]

H_Done(op, inputs, save, r) ==
  /\ handles' = [r.hs EXCEPT !.calls = @ + 1,
                             !.last = [op |-> op, inputs |-> inputs,
                                       save |-> save, result |-> r.result]]
  /\ UNCHANGED <<av, vm, gp, heap, files, ae, app>>

\* save=False hands one more clip to the caller
H_Room(save) ==
  /\ handles.calls < MaxCalls
  /\ save \/ Len(handles.clips) < MaxClips

AdjustColor ==
  \E input_path \in 0..Len(handles.clips), save \in BOOLEAN,
     encode_ok \in BOOLEAN :
    /\ H_Room(save)
    /\ H_Done("adjust_color", <<input_path>>, save,
              VE_adjust_color(handles, input_path, save, encode_ok))

MergeVideoAudio ==
  \E video_input \in 0..Len(handles.clips), save \in BOOLEAN,
     encode_ok \in BOOLEAN :
    /\ H_Room(save)
    /\ H_Done("av_merger.merge", <<video_input>>, save,
              VAM_merge_clips(handles, video_input, save, encode_ok))

MergeVideos ==
  \E intro_path \in 0..Len(handles.clips),
     main_path \in 0..Len(handles.clips), save \in BOOLEAN,
     encode_ok \in BOOLEAN :
    /\ H_Room(save)
    /\ H_Done("video_merger.merge", <<intro_path, main_path>>, save,
              VM_merge_clips(handles, intro_path, main_path, save, encode_ok))

\* The caller releases a clip it holds.
CallerClose ==
  \E k \in 1..Len(handles.clips) :
    /\ handles.calls < MaxCalls
    /\ handles.clips[k].closed_by = ""
    /\ H_Done("close", <<k>>, FALSE,
              H_Result(H_Close(handles, k, "caller"), "closed"))


(***************************************************************************)
(* Specifications: one per component, the other components idle.           *)
(***************************************************************************)
\* The audio variables while no AudioEnhancer call is modelled.
AudioIdle == heap = << >> /\ files = << >> /\ ae = AEIdle

\* The menus and the clip handles while neither is modelled.
RestIdle == app = AppIdle /\ handles = << >>

InitAV == AVInit /\ vm = VMIdle /\ gp = GPIdle /\ AudioIdle /\ RestIdle
NextAV == AVMerge
SpecAV == InitAV /\ [][NextAV]_vars

InitVM == VMInit /\ av = AVIdle /\ gp = GPIdle /\ AudioIdle /\ RestIdle
NextVM == VMMerge
SpecVM == InitVM /\ [][NextVM]_vars

\* Either merge component, called once.
InitMerge ==
  /\ \/ AVInit /\ vm = VMIdle
     \/ VMInit /\ av = AVIdle
  /\ gp = GPIdle
  /\ AudioIdle
  /\ RestIdle
NextMerge == AVMerge \/ VMMerge
SpecMerge == InitMerge /\ [][NextMerge]_vars

InitPath == GPInit /\ av = AVIdle /\ vm = VMIdle /\ AudioIdle /\ RestIdle
NextPath == GP_ReadPath \/ GP_ReadConfirm
SpecPath == InitPath /\ [][NextPath]_vars

\* One call of an AudioEnhancer operation.
InitAudio == AEInit /\ av = AVIdle /\ vm = VMIdle /\ gp = GPIdle /\ RestIdle
NextAudio ==
  \/ IncreaseVolume
  \/ DecreaseVolume
  \/ FadeIn
  \/ FadeOut
  \/ SpeedChange
  \/ Reverse
  \/ Cut
  \/ Normalize
  \/ ApplyMultiple
SpecAudio == InitAudio /\ [][NextAudio]_vars

\* A session of the user at the menus.
InitApp ==
  /\ AppInit
  /\ av = AVIdle /\ vm = VMIdle /\ gp = GPIdle /\ ae = AEIdle
  /\ handles = << >>
NextApp ==
  \/ Run_Choice
  \/ Run_MergeVideos
  \/ Run_MergeAudioVideo
  \/ Run_FullPipeline
  \/ AudioMenu
  \/ VideoMenu
SpecApp == InitApp /\ [][NextApp]_vars

\* The fades, called by a caller of AudioEnhancer or from the audio menu.
InitFade == InitAudio \/ InitApp
NextFade ==
  \/ FadeIn
  \/ FadeOut
  \/ Run_Choice
  \/ AudioMenu
SpecFade == InitFade /\ [][NextFade]_vars

\* Calls of the video components on paths and on clips the caller holds.
InitHandles ==
  /\ HandlesInit
  /\ av = AVIdle /\ vm = VMIdle /\ gp = GPIdle /\ AudioIdle /\ app = AppIdle
NextHandles ==
  \/ AdjustColor
  \/ MergeVideoAudio
  \/ MergeVideos
  \/ CallerClose
SpecHandles == InitHandles /\ [][NextHandles]_vars

(***************************************************************************)
(* Claims about the merge components                                       *)
(***************************************************************************)

\* The audio track of what a successful VideoAudioMerger.merge produced: of
\* the returned clip, or of the written file.
AttachedAudio(out) ==
  IF out.ret.kind = "clip" THEN out.ret.audio ELSE out.written[1].audio

RECURSIVE PartsLength(_)
PartsLength(parts) ==
  IF parts = << >> THEN 0
  ELSE (Head(parts)[2] - Head(parts)[1]) + PartsLength(Tail(parts))

\* C1: for every video duration v_dur > 0 and audio duration a_dur > 0, the
\* audio that VideoAudioMerger.merge attaches lasts exactly v_dur: looped and
\* trimmed to v_dur when a_dur < v_dur (its content fills v_dur), the span
\* [0, v_dur] of the audio when a_dur > v_dur, and the audio unmodified when
\* a_dur = v_dur.
C1_AttachedAudioLastsVideo ==
  LET v_dur == av.in.video_input.duration
      a_dur == av.in.audio_input.duration
  IN  (av.pc = "done" /\ av.out.ret.kind # "None" /\ v_dur > 0 /\ a_dur > 0)
      => LET audio == AttachedAudio(av.out)
         IN  /\ audio.duration = v_dur
             /\ a_dur < v_dur => PartsLength(audio.parts) = v_dur
             /\ a_dur > v_dur => audio.parts = << <<0, v_dur>> >>
             /\ a_dur = v_dur => audio = AudioClip(a_dur)

\* A merge of a 3-tick audio into a 4-tick video returned a clip whose audio
\* lasts 4 ticks.
C1_Witness ==
  /\ av.pc = "done"
  /\ av.in.video_input.duration = 4
  /\ av.in.audio_input.duration = 3
  /\ av.out.ret.kind = "clip"
  /\ av.out.ret.audio.duration = 4

\* C2: for 0 < a_dur < v_dur, loop_count = floor(v_dur / a_dur) + 1 copies
\* cover the video (loop_count * a_dur >= v_dur), every copy before the last
\* one is complete ((loop_count - 1) * a_dur <= v_dur), and the trimmed audio
\* consists of complete copies followed by at most one partial copy, the last.
C2_LoopCoversVideo ==
  LET v_dur == av.in.video_input.duration
      a_dur == av.in.audio_input.duration
  IN  (av.pc = "done" /\ av.out.ret.kind # "None" /\ 0 < a_dur /\ a_dur < v_dur)
      => LET n     == av.out.loop_count
             parts == AttachedAudio(av.out).parts
         IN  /\ n = (v_dur \div a_dur) + 1
             /\ n * a_dur >= v_dur
             /\ (n - 1) * a_dur <= v_dur
             /\ Len(parts) >= 1 /\ Len(parts) <= n
             /\ \A i \in 1..(Len(parts) - 1) : parts[i] = <<0, a_dur>>
             /\ parts[Len(parts)][1] = 0
             /\ parts[Len(parts)][2] <= a_dur
             /\ PartsLength(parts) = v_dur

\* A 2-tick audio looped twice into a 3-tick video: one complete copy, then
\* half a copy.
C2_Witness ==
  /\ av.pc = "done"
  /\ av.in.video_input.duration = 3
  /\ av.in.audio_input.duration = 2
  /\ av.out.loop_count = 2
  /\ av.out.ret.kind # "None"
  /\ AttachedAudio(av.out).parts = << <<0, 2>>, <<0, 1>> >>

\* C5: the output of VideoMerger.merge lasts duration(a) + duration(b) -
\* crossfade when crossfade > 0, and duration(a) + duration(b) when
\* crossfade = 0.
C5_MergedDuration ==
  (vm.pc = "done" /\ vm.out.merged_clip.kind = "clip")
  => vm.out.merged_clip.duration =
       vm.in.intro_path.duration + vm.in.main_path.duration
         - (IF vm.in.crossfade > 0 THEN vm.in.crossfade ELSE 0)

\* The failures a call of VideoAudioMerger.merge can meet.
VAM_Failure(in) ==
  \/ in.video_input.kind = "path" /\ ~in.video_input.loads
  \/ in.audio_input.kind = "path" /\ ~in.audio_input.exists
  \/ in.audio_input.kind = "path" /\ ~in.audio_input.loads
  \/ in.audio_input.duration = 0 /\ 0 < in.video_input.duration
  \/ in.save /\ ~in.encode_ok

\* The failures a call of VideoMerger.merge can meet.
VM_Failure(in) ==
  \/ in.intro_path.kind = "path" /\ ~in.intro_path.exists
  \/ in.main_path.kind = "path" /\ ~in.main_path.exists
  \/ in.intro_path.kind = "path" /\ ~in.intro_path.loads
  \/ in.main_path.kind = "path" /\ ~in.main_path.loads
  \/ in.save /\ ~in.encode_ok

AllowedExtensions(expected_type) ==
  IF expected_type = "audio" THEN AudioExtensions ELSE VideoExtensions

ValidPath(path, expected_type) ==
  /\ path \in FileSystem
  /\ lower(splitext_ext(path)) \in AllowedExtensions(expected_type)

\* C10: get_valid_path returns only the path typed in the current pass of its
\* loop (quotes and blanks stripped), which exists, whose extension, lower
\* cased, is in the allow-list of expected_type, and which the user confirmed
\* with "y"; the confirmation is asked only for a path that passed both
\* checks, and a pass with a failed check or another answer ends at the
\* prompt again.
C10_ReturnsOnlyValidConfirmedPath ==
  /\ gp.pc = "returned" =>
       /\ gp.ret = [kind |-> "path",
                    path |-> strip(strip(gp.typed, {"\""}), Whitespace)]
       /\ ValidPath(gp.ret.path, gp.expected_type)
       /\ gp.asked
       /\ lower(strip(gp.answer, Whitespace)) = <<"y">>
  /\ gp.pc = "confirm" => ValidPath(gp.path, gp.expected_type) /\ ~gp.asked
  /\ (gp.pc = "prompt" /\ gp.passes > 0) =>
       /\ gp.ret = None
       /\ \/ ~ValidPath(gp.path, gp.expected_type) /\ ~gp.asked
          \/ /\ ValidPath(gp.path, gp.expected_type)
             /\ gp.asked
             /\ lower(strip(gp.answer, Whitespace)) # <<"y">>

\* After a pass that failed, the user typed b.WAV for an audio file and
\* confirmed with Y: the path is returned.
C10_Witness ==
  /\ gp.pc = "returned"
  /\ gp.passes >= 2
  /\ gp.expected_type = "audio"
  /\ gp.typed = <<"b", ".", "W", "A", "V">>
  /\ gp.answer = <<"Y">>
  /\ gp.ret.path = <<"b", ".", "W", "A", "V">>

(***************************************************************************)
(* Claims about AudioEnhancer                                              *)
(***************************************************************************)

\* The samples and the rate of what a call returned: of the pair's buffer, or
\* of the file at the returned path.
ReturnedSamples(mem, fs, ret) ==
  IF ret.kind = "tuple" THEN View(mem, ret.y) ELSE fs[ret].samples
ReturnedRate(fs, ret) ==
  IF ret.kind = "tuple" THEN ret.sr ELSE fs[ret].sr

\* The names of an action list, in its order.
Names(actions) == [k \in 1..Len(actions) |-> actions[k].name]

\* The first position of an action list whose name is not an audio
\* operation; 0 when every name is one.
FirstUnknown(actions) ==
  IF \A i \in 1..Len(actions) : actions[i].name \in AudioOperations THEN 0
  ELSE CHOOSE i \in 1..Len(actions) :
         /\ actions[i].name \notin AudioOperations
         /\ \A j \in 1..(i - 1) : actions[j].name \in AudioOperations

\* C3: apply_multiple fails fast: when the loop comes to a position i whose
\* name is not one of the audio operations (the operations before i have
\* run), apply_multiple returns None, raises nothing, and applies no
\* operation at a position after i.
C3_UnknownNameReturnsNone ==
  LET i == FirstUnknown(ae.actions)
  IN  (ae.pc = "done" /\ ae.op = "apply_multiple" /\ i > 0
         /\ Len(ae.applied) >= i - 1)
      => /\ ae.ret.kind = "None"
         /\ ae.exc = ""
         /\ ae.applied = SubSeq(Names(ae.actions), 1, i - 1)

\* op_n(... op_1(input) ...): the operations of actions, each called by
\* itself on what the one before it returned.
RECURSIVE Composition(_, _, _)
Composition(st, input, actions) ==
  IF actions = << >> THEN AE_Result(st, input)
  ELSE The({
    IF r.exc # "" THEN r
    ELSE Composition([heap |-> r.heap, files |-> r.files], r.ret, Tail(actions))
    : r \in {AM_Call(st, Head(actions).name, input, Head(actions).val)}})

C7_PathWithSavePairWithout ==
  (ae.pc = "done" /\ ae.exc = "" /\ ae.ret.kind # "None")
  => IF ae.save
     THEN /\ ae.ret.kind = "path"
          /\ ae.ret.dir = AE_output_dir
          /\ ae.ret \in DOMAIN files
          /\ ae.wrote = {ae.ret}
     ELSE /\ ae.ret.kind = "tuple"
          /\ ae.wrote = {}

GainTransforms == {"increase_volume", "decrease_volume", "normalize"}

\* The operation a call ended with: the operation called, or the last one of
\* the list given to apply_multiple.
LastOperation ==
  IF ae.op # "apply_multiple" THEN ae.op
  ELSE IF ae.actions = << >> THEN ""
  ELSE ae.actions[Len(ae.actions)].name

\* C8: after increase_volume, decrease_volume or normalize, for any input
\* buffer and any gain or target, every sample of the returned buffer (or of
\* the file written) lies in [-1.0, 1.0]; so it does after a sequence of
\* operations that ends with one of the three.
C8_GainTransformsClip ==
  (ae.pc = "done" /\ ae.exc = "" /\ ae.ret.kind # "None"
     /\ LastOperation \in GainTransforms)
  => \A k \in 1..Len(ReturnedSamples(heap, files, ae.ret)) :
       Abs(ReturnedSamples(heap, files, ae.ret)[k]) <= Unit

\* increase_volume((y, sr), 6.02) on y = [1.5, -0.875] returned [1.0, -1.0].
C8_Witness ==
  /\ ae.pc = "done"
  /\ ae.op = "increase_volume"
  /\ ae.args = <<1>>
  /\ ae.input_path.kind = "tuple"
  /\ View(heap, ae.input_path.y) = <<48, 0 - 28>>
  /\ ae.ret.kind = "tuple"
  /\ View(heap, ae.ret.y) = <<Unit, 0 - Unit>>

\* C9: normalize is idempotent: normalize applied to the buffer that
\* normalize(x, target_db) returned, with the same target_db, gives that
\* buffer again (to one step of the amplitude resolution, which rounding
\* can cost).
C9_NormalizeIdempotent ==
  (ae.pc = "done" /\ ae.op = "normalize" /\ ae.exc = "" /\ ~ae.save)
  => LET once  == View(heap, ae.ret.y)
         twice == normalize_samples(once, ae.args[1])
     IN  \A k \in 1..Len(once) : Abs(twice[k] - once[k]) <= 1

\* The samples and the rate of the audio a call of an operation was given:
\* the caller's buffer holds what the file song holds, and no operation
\* writes that file.
Original == files[SongPath].samples
OriginalRate == files[SongPath].sr

\* y[k] times the ramp value <<numerator, denominator>>
Ramped(sample, ramp) == RoundDiv(sample * ramp[1], ramp[2])

\* C14: for every n = int(rate * duration) with 0 <= n <= buffer length,
\* fade_in multiplies exactly the first n samples by a linear ramp 0 to 1 and
\* fade_out exactly the last n samples by a linear ramp 1 to 0, the samples
\* outside the window keep their value, and with n = 0 both succeed and
\* return the buffer unchanged.
C14_FadesRampTheirWindow ==
  LET y   == Original
      len == Len(Original)
      n   == OriginalRate * ae.args[1]
  IN  (ae.pc = "done" /\ ae.op \in {"fade_in", "fade_out"}
         /\ ae.input_path # MissingPath /\ n <= len)
      => /\ ae.exc = ""
         /\ ae.ret.kind # "None"
         /\ ReturnedSamples(heap, files, ae.ret) =
              [k \in 1..len |->
                 IF ae.op = "fade_in"
                 THEN IF k <= n THEN Ramped(y[k], RampUp(k, n)) ELSE y[k]
                 ELSE IF k > len - n
                      THEN Ramped(y[k], RampDown(k - (len - n), n))
                      ELSE y[k]]

\* The audio operations that are not fades.
NonFadeOperations == AudioOperations \ {"fade_in", "fade_out"}

\* C16: an audio operation other than fade_in and fade_out returns a buffer
\* that shares no storage with its input: after a chain of operations that
\* starts with such an operation, so that a fade in it works on the result of
\* a non-fade operation (reverse or cut, then fade_in), the samples of the
\* buffer the caller passed in are unchanged.
C16_CallersBufferUnchanged ==
  (ae.pc = "done" /\ ae.op = "apply_multiple" /\ ae.input_path.kind = "tuple"
     /\ ae.actions # << >> /\ ae.actions[1].name \in NonFadeOperations)
  => View(heap, ae.input_path.y) = Original

\* C17: cut(input, start, end) returns exactly the samples with index in
\* [int(start * rate), int(end * rate)) for every numeric end that is given,
\* end = 0 included (an empty buffer), and the samples from int(start * rate)
\* to the end of the buffer only when end is None.
C17_CutReturnsTheSpan ==
  (ae.pc = "done" /\ ae.op = "cut" /\ ae.input_path # MissingPath)
  => LET len == Len(Original)
         lo  == Min(ae.args[1] * OriginalRate, len)
         hi  == IF Len(ae.args) = 2 THEN Min(ae.args[2] * OriginalRate, len)
                ELSE len
     IN  /\ ae.exc = ""
         /\ ae.ret.kind # "None"
         /\ ReturnedSamples(heap, files, ae.ret) = SubSeq(Original, lo + 1, hi)

(***************************************************************************)
(* Claims about the menus                                                  *)
(***************************************************************************)

\* The prompt of a menu.
MenuPrompt(menu) ==
  CASE menu = "main" -> "main"
    [] menu = "audio" -> "audio_menu"
    [] menu = "video" -> "video_menu"

\* The choices a menu offers.
MenuChoices(menu) ==
  CASE menu = "main" -> {<<"0">>, <<"1">>, <<"2">>, <<"3">>, <<"4">>, <<"5">>}
    [] menu = "audio" -> {<<"0">>, <<"1">>, <<"2">>, <<"3">>, <<"4">>, <<"5">>}
    [] menu = "video" -> {<<"0">>, <<"1">>, <<"2">>}

\* C11: in every menu a choice that is none of the menu's, and in the audio
\* menu a speed factor that is no number, is reported on the console with no
\* component operation called, and the same menu prompts again; run() ends
\* only on the choice 0 of the main menu; and no sequence of choices, paths
\* and numbers ends the program with an exception no handler caught.
C11_BadInputIsReported ==
  (app.pc # "idle" /\ app.steps > 0)
  => /\ app.uncaught = ""
     /\ app.pc \in {"main", "audio_menu", "video_menu", "exit"}
     /\ (app.pc = "exit") => (app.menu = "main" /\ app.choice = <<"0">>)
     /\ (app.choice \notin MenuChoices(app.menu)) =>
          /\ app.calls = << >>
          /\ app.printed \in {<<"Invalid choice">>,
                              <<"Invalid choice. Try again.">>}
          /\ app.pc = MenuPrompt(app.menu)
     /\ (app.menu = "audio" /\ app.choice = <<"5">> /\ ~IsFloat(app.text)) =>
          /\ app.calls = << >>
          /\ app.printed = <<"Error">>
          /\ app.pc = "audio_menu"

\* In the audio menu the user chose 5 and typed "fast" for the speed: an
\* error is printed, nothing was called, the audio menu prompts again.
C11_Witness ==
  /\ app.pc = "audio_menu"
  /\ app.menu = "audio"
  /\ app.choice = <<"5">>
  /\ app.text = <<"f", "a", "s", "t">>
  /\ app.calls = << >>
  /\ app.printed = <<"Error">>

PipelineSteps == <<"decrease_volume", "adjust_color", "av_merger.merge">>

\* C12: the full pipeline runs decrease-volume, then color-adjust, then
\* av-merge, in that order and each once; a step starts only after the step
\* before it returned; the av-merge is given what the two earlier steps
\* returned; when a step raises no later step runs; and the main menu
\* prompts again.
C12_PipelineRunsItsStepsInOrder ==
  (app.pc # "idle" /\ app.steps > 0 /\ app.menu = "main"
     /\ app.choice = <<"5">>)
  => LET n == Len(app.calls)
     IN  /\ n \in 1..3
         /\ \A k \in 1..n : app.calls[k].op = PipelineSteps[k]
         /\ \A k \in 1..(n - 1) : app.calls[k].result = "value"
         /\ (n < 3) => (app.calls[n].result = "raise"
                          /\ app.printed[Len(app.printed)] = "Pipeline failed")
         /\ (n = 3) => app.calls[3].inputs =
                         <<app.calls[2].out, app.calls[1].out>>
         /\ app.pc = "main"
         /\ app.uncaught = ""

\* A pipeline whose color-adjust step raised: the av-merge was not run.
C12_Witness ==
  /\ app.pc = "main"
  /\ app.menu = "main"
  /\ app.choice = <<"5">>
  /\ Len(app.calls) = 2
  /\ app.calls[1].result = "value"
  /\ app.calls[2].op = "adjust_color"
  /\ app.calls[2].result = "raise"
  /\ app.printed = <<"Step 1", "Step 2", "Pipeline failed">>

SuccessMessages ==
  {"Videos merged successfully", "Merged output saved", "Final video ready"}
FailureMessages == {"Failed to merge", "Failed", "Pipeline failed"}

\* C13: when a merge component returns None to the menu layer (in Merge Two
\* Videos, Merge Video+Audio, or the av-merge step of the Full Pipeline), the
\* menu layer prints a message of failure and prints no message of success
\* for that action.
C13_NullMergeIsReportedAsFailure ==
  (app.pc # "idle" /\ app.steps > 0
     /\ \E k \in 1..Len(app.calls) :
          /\ app.calls[k].op \in {"video_merger.merge", "av_merger.merge"}
          /\ app.calls[k].result = "None")
  => /\ \E i \in 1..Len(app.printed) : app.printed[i] \in FailureMessages
     /\ \A i \in 1..Len(app.printed) : app.printed[i] \notin SuccessMessages

(***************************************************************************)
(* Claims about a fade longer than the buffer                              *)
(***************************************************************************)

\* A fade was called on the loaded or passed buffer with a window of
\* n = int(rate * duration) samples, more than the buffer has.
FadeTooLong ==
  /\ ae.pc = "done"
  /\ ae.op \in {"fade_in", "fade_out"}
  /\ ae.input_path # MissingPath
  /\ OriginalRate * ae.args[1] > Len(Original)

\* The fade failed: an error, no result, no file, the buffer as it was.
FadeFailed ==
  /\ ae.exc # ""
  /\ ae.ret.kind = "None"
  /\ ae.wrote = {}
  /\ (ae.input_path.kind = "tuple") => (View(heap, ae.input_path.y) = Original)

\* The audio menu handled the choice 4 (fade in and out, 2 seconds each) on
\* a file shorter than 2 seconds.
MenuFadeTooLong ==
  /\ app.pc # "idle"
  /\ app.steps > 0
  /\ app.menu = "audio"
  /\ app.choice = <<"4">>
  /\ OriginalRate * 2 > Len(Original)

\* The menu caught and reported the error of fade_in, and prompts again.
MenuFadeReported ==
  /\ Len(app.calls) = 1
  /\ app.calls[1].op = "fade_in"
  /\ app.calls[1].result = "raise"
  /\ app.printed = <<"Error">>
  /\ app.pc = "audio_menu"
  /\ app.uncaught = ""
  /\ DOMAIN files = {SongPath}

\* C15 (as the code has it): when int(duration * rate) exceeds the buffer
\* length, fade_in and fade_out fail with an error instead of returning a
\* result, the input buffer is left unmodified and no file is written,
\* except for an empty buffer with int(duration * rate) = 1; when called
\* from the audio menu the error is caught and reported and the menu
\* prompts again.
C15_TooLongFadeFails ==
  /\ (FadeTooLong /\ ~(Len(Original) = 0 /\ OriginalRate * ae.args[1] = 1))
       => FadeFailed
  /\ MenuFadeTooLong => MenuFadeReported

\* The audio menu's fade on a one-sample file at rate 1: the error of
\* fade_in was printed and the menu prompts again.
C15_Witness ==
  /\ MenuFadeTooLong
  /\ MenuFadeReported
  /\ Len(Original) = 1
  /\ app.paths = 1

\* C15 as stated: every fade whose window int(duration * rate) exceeds the
\* buffer length fails with an error, leaves the input buffer unmodified and
\* writes no file, and from the audio menu the error is caught, reported and
\* the menu prompts again.
C15_EveryTooLongFadeFails ==
  /\ FadeTooLong => FadeFailed
  /\ MenuFadeTooLong => MenuFadeReported

(***************************************************************************)
(* Claims about clip handles                                               *)
(***************************************************************************)

\* C18: a clip the caller passed in, or one an operation returned with
\* save=False, stays open until the caller releases it: over any sequence of
\* VideoEnhancer, VideoMerger and VideoAudioMerger calls, with save=True or
\* save=False, no operation closes a clip it did not itself open from a
\* path, so every clip the caller holds and has not closed can be the input
\* of a later operation.
C18_OnlyTheCallerClosesItsClips ==
  (handles # << >>)
  => \A k \in 1..Len(handles.clips) :
       handles.clips[k].closed_by \in {"", "caller"}

====
